---- MODULE Spec2Model ----
(***************************************************************************)
(* Model of the pratyayprofile_backend document access layer:              *)
(*   - src/main.py: the FastAPI handlers (path-addressed and               *)
(*     header-addressed), the admin-secret gate and serialize_doc;         *)
(*   - src/mongodb_conn.py: the repository functions;                      *)
(*   - src/pratyayprofile_backend/mongodb.py: MongoConnectionManager and   *)
(*     LazyConnectionManager (the process-wide connection_manager).        *)
(*                                                                         *)
(* Every handler is `async def` and runs on one event loop.  It awaits    *)
(* exactly one store operation, and the store applies a single-document    *)
(* operation atomically, so a request is one action taken at the moment    *)
(* its store operation is applied; connection_manager's methods contain no *)
(* await before the client is stored, so they are atomic as well.          *)
(***************************************************************************)
EXTENDS Naturals, Sequences, FiniteSets, TLC

VARIABLES
    environ,    \* os.environ: [ADMIN_PASS, MONGODB_URL]
    instance,   \* connection_manager._instance: 0 is None, else a client id
    clients,    \* every AsyncIOMotorClient constructed so far: <<[uri, closed]>>
    store,      \* the MongoDB deployment: [database -> [collection -> <<doc>>]]
    last        \* the request just served, its response, its repository calls
                \* and what the store did, until the response is sent

vars == <<environ, instance, clients, store, last>>

----------------------------------------------------------------------------
(* Bounds of the model. *)

\* documents the store may hold in total
MaxDocs == 2
\* clients that may be constructed during one run of the process
MaxClients == 2

----------------------------------------------------------------------------
(* Values. *)

\* Python's None, for a header or variable that is absent
None == "<None>"
\* a JSON member that is not there
Absent == "<absent>"

Databases == {"test"}
Collections == {"users"}
FieldNames == {"name"}

\* bson.ObjectId is 12 bytes, written as 24 hexadecimal characters
OidBytes == 12
OidHexLen == 2 * OidBytes

HexLower == <<"0","1","2","3","4","5","6","7","8","9","a","b","c","d","e","f">>
HexUpper == <<"0","1","2","3","4","5","6","7","8","9","A","B","C","D","E","F">>
Whitespace == {" "}

HexChars == {HexLower[i] : i \in 1..16} \cup {HexUpper[i] : i \in 1..16}
IsHexChar(c) == c \in HexChars

\* int(c, 16)
HexValues ==
    [c \in HexChars |-> (CHOOSE i \in 1..16 : HexLower[i] = c \/ HexUpper[i] = c) - 1]
HexVal(c) == HexValues[c]

\* bytes.fromhex: two hexadecimal digits per byte, ASCII whitespace between
\* bytes skipped; anything else raises ValueError
RECURSIVE fromhex(_)
fromhex(s) ==
    IF s = <<>> THEN [ok |-> TRUE, bytes |-> <<>>]
    ELSE IF Head(s) \in Whitespace THEN fromhex(Tail(s))
    ELSE IF Len(s) >= 2 /\ IsHexChar(s[1]) /\ IsHexChar(s[2])
         THEN LET rest == fromhex(SubSeq(s, 3, Len(s)))
              IN  IF rest.ok
                  THEN [ok |-> TRUE,
                        bytes |-> <<16 * HexVal(s[1]) + HexVal(s[2])>> \o rest.bytes]
                  ELSE rest
         ELSE [ok |-> FALSE, bytes |-> <<>>]

\* ObjectId(oid) for a str: len(oid) == 24 and bytes.fromhex(oid), else InvalidId
ObjectId(s) ==
    IF Len(s) = OidHexLen THEN fromhex(s) ELSE [ok |-> FALSE, bytes |-> <<>>]

\* binascii.hexlify
RECURSIVE hexlify(_)
hexlify(b) ==
    IF b = <<>> THEN <<>>
    ELSE <<HexLower[(Head(b) \div 16) + 1], HexLower[(Head(b) % 16) + 1]>>
         \o hexlify(Tail(b))

\* An _id value: an ObjectId (its 12 bytes) or a JSON string (its characters)
OidValue(bytes) == [kind |-> "oid", bin |-> bytes, text |-> <<>>]
StrValue(chars) == [kind |-> "str", bin |-> <<>>, text |-> chars]
NoId == [kind |-> "none", bin |-> <<>>, text |-> <<>>]

\* variant of str: the hex of an ObjectId in upper case
str_upper(v) ==
    IF v.kind = "oid"
    THEN [i \in 1..(2 * Len(v.bin)) |->
            IF i % 2 = 1 THEN HexUpper[(v.bin[(i + 1) \div 2] \div 16) + 1]
                         ELSE HexUpper[(v.bin[i \div 2] % 16) + 1]]
    ELSE v.text

\* str(_id): ObjectId.__str__ is the lower-case hex of its bytes; str of a str
\* is the str
str(v) == IF v.kind = "oid" THEN hexlify(v.bin) ELSE v.text

----------------------------------------------------------------------------
(* JSON texts and documents.  A JSON string is its sequence of characters; *)
(* a text handed to json.loads is its sequence of tokens.                  *)

Alice == <<"A","l","i","c","e">>
Bob == <<"B","o","b">>
NoValue == <<Absent>>

Punct(c) == [tok |-> "punct", v |-> <<c>>]
StrTok(chars) == [tok |-> "str", v |-> chars]
NumTok(chars) == [tok |-> "num", v |-> chars]

FieldText(k) == IF k = "name" THEN <<"n","a","m","e">> ELSE <<k>>
IdText == <<"_","i","d">>

\* the value a scalar token denotes: a number is kept apart from the string
\* of the same digits
ScalarOf(t) == IF t.tok = "num" THEN <<"#num">> \o t.v ELSE t.v
IsScalarTok(t) == t.tok \in {"str", "num"}

\* A JSON object over the modelled fields: its _id member (NoId when it has
\* none) and its other members; `other` says it names a field that no
\* document of the model has
EmptyFields == [k \in FieldNames |-> NoValue]
EmptyObject == [id |-> NoId, f |-> EmptyFields, other |-> FALSE]

WithMember(obj, key, val) ==
    IF key = IdText THEN [obj EXCEPT !.id = StrValue(val)]
    ELSE IF \E k \in FieldNames : FieldText(k) = key
         THEN [obj EXCEPT !.f[CHOOSE k \in FieldNames : FieldText(k) = key] = val]
         ELSE [obj EXCEPT !.other = TRUE]

JSONDecodeError == [ok |-> FALSE, kind |-> "error", obj |-> EmptyObject]

\* members of an object after "{" or ",":  "key" : scalar  ( "," ... | "}" )
RECURSIVE ParseMembers(_, _)
ParseMembers(t, obj) ==
    IF Len(t) >= 4 /\ t[1].tok = "str" /\ t[2] = Punct(":") /\ IsScalarTok(t[3])
    THEN LET o2 == WithMember(obj, t[1].v, ScalarOf(t[3]))
         IN  IF t[4] = Punct("}") /\ Len(t) = 4
             THEN [ok |-> TRUE, kind |-> "object", obj |-> o2]
             ELSE IF t[4] = Punct(",")
                  THEN ParseMembers(SubSeq(t, 5, Len(t)), o2)
                  ELSE JSONDecodeError
    ELSE JSONDecodeError

\* elements of an array after "[" or ",":  scalar ( "," ... | "]" )
RECURSIVE ParseElements(_)
ParseElements(t) ==
    IF Len(t) >= 2 /\ IsScalarTok(t[1])
    THEN IF t[2] = Punct("]") /\ Len(t) = 2
         THEN [ok |-> TRUE, kind |-> "array", obj |-> EmptyObject]
         ELSE IF t[2] = Punct(",")
              THEN ParseElements(SubSeq(t, 3, Len(t)))
              ELSE JSONDecodeError
    ELSE JSONDecodeError

\* json.loads on a text of scalars, flat arrays and flat objects
json_loads(t) ==
    IF t = <<>> THEN JSONDecodeError
    ELSE IF IsScalarTok(t[1])
         THEN IF Len(t) = 1
              THEN [ok |-> TRUE, kind |-> "scalar", obj |-> EmptyObject]
              ELSE JSONDecodeError
    ELSE IF t[1] = Punct("[")
         THEN IF Len(t) = 2 /\ t[2] = Punct("]")
              THEN [ok |-> TRUE, kind |-> "array", obj |-> EmptyObject]
              ELSE ParseElements(Tail(t))
    ELSE IF t[1] = Punct("{")
         THEN IF Len(t) = 2 /\ t[2] = Punct("}")
              THEN [ok |-> TRUE, kind |-> "object", obj |-> EmptyObject]
              ELSE ParseMembers(Tail(t), EmptyObject)
    ELSE JSONDecodeError

\* A stored document: its _id and its fields
Doc(id, f) == [id |-> id, f |-> f]

\* bool(query): a dict is falsy when it has no member
IsEmptyDict(flt) == flt.id = NoId /\ flt.f = EmptyFields /\ ~flt.other

\* the store's matching of a document against an equality filter
Matches(doc, flt) ==
    /\ ~flt.other
    /\ flt.id # NoId => doc.id = flt.id
    /\ \A k \in FieldNames : flt.f[k] # NoValue => doc.f[k] = flt.f[k]

----------------------------------------------------------------------------
(* The connection manager (mongodb.py).  A world w is the state a call     *)
(* reads: [environ, instance, clients, store].                             *)

World == [environ |-> environ, instance |-> instance,
          clients |-> clients, store |-> store]

\* variant of MongoConnectionManager: the client is constructed whatever
\* MONGODB_URL holds
MongoConnectionManager_unchecked(w) ==
    [ok |-> TRUE, id |-> Len(w.clients) + 1,
     clients |-> Append(w.clients, [uri |-> w.environ.MONGODB_URL,
                                    closed |-> FALSE])]

\* MongoConnectionManager.__init__: reads MONGODB_URL, raises ValueError when
\* it is unset or empty, else constructs a client
MongoConnectionManager(w) ==
    LET uri == w.environ.MONGODB_URL
    IN  IF uri = None \/ uri = ""
        THEN [ok |-> FALSE, id |-> 0, clients |-> w.clients]
        ELSE [ok |-> TRUE, id |-> Len(w.clients) + 1,
              clients |-> Append(w.clients, [uri |-> uri, closed |-> FALSE])]

\* variant of _get_instance: a client per call
_get_instance_always_new(w) ==
    LET m == MongoConnectionManager(w)
    IN  [ok |-> m.ok, instance |-> IF m.ok THEN m.id ELSE w.instance,
         clients |-> m.clients]

\* LazyConnectionManager._get_instance
_get_instance(w) ==
    IF w.instance = 0
    THEN LET m == MongoConnectionManager(w)
         IN  [ok |-> m.ok, instance |-> m.id, clients |-> m.clients]
    ELSE [ok |-> TRUE, instance |-> w.instance, clients |-> w.clients]

\* LazyConnectionManager.get_database -> self.client[database_name]
get_database(w, database_name) ==
    LET g == _get_instance(w)
    IN  [ok |-> g.ok, instance |-> g.instance, clients |-> g.clients,
         handle |-> [client |-> g.instance, database |-> database_name]]

\* LazyConnectionManager.get_collection -> get_database(...)[collection_name]
get_collection(w, database_name, collection_name) ==
    LET g == _get_instance(w)
    IN  [ok |-> g.ok, instance |-> g.instance, clients |-> g.clients,
         handle |-> [client |-> g.instance, database |-> database_name,
                     collection |-> collection_name]]

\* LazyConnectionManager.close_connection: closes the stored client and
\* keeps it stored; with none stored, constructs a client and closes it
close_connection(w) ==
    IF w.instance # 0
    THEN [ok |-> TRUE, instance |-> w.instance,
          clients |-> [w.clients EXCEPT ![w.instance].closed = TRUE]]
    ELSE LET temp_instance == MongoConnectionManager(w)
         IN  IF temp_instance.ok
             THEN [ok |-> TRUE, instance |-> w.instance,
                   clients |-> [temp_instance.clients
                                   EXCEPT ![temp_instance.id].closed = TRUE]]
             ELSE [ok |-> FALSE, instance |-> w.instance, clients |-> w.clients]

\* What the deployment does with one operation: it applies it, or the
\* driver raises a PyMongoError (unreachable server, closed client, ...)
Fates == {"ok", "fail"}

\* LazyConnectionManager.ping: True, or False on PyMongoError; ValueError
\* when no client can be constructed
ping(w, fate) ==
    LET g == _get_instance(w)
    IN  [ok |-> g.ok, instance |-> g.instance, clients |-> g.clients,
         value |-> g.ok /\ fate = "ok"]

----------------------------------------------------------------------------
(* The repository (mongodb_conn.py).  Each function obtains the collection *)
(* handle and awaits one operation of the store; PyMongoError is printed   *)
(* and raised again, any other exception passes through.                   *)

NoLimit == <<>>
Call(op, h, flt, arg, limit) ==
    [op |-> op, client |-> h.client, database |-> h.database,
     collection |-> h.collection, filter |-> flt, arg |-> arg, limit |-> limit]

Coll(w, h) == w.store[h.database][h.collection]
PutColl(w, h, docs) == [w.store EXCEPT ![h.database][h.collection] = docs]

\* index of the first document matching flt, 0 when there is none
FirstMatch(docs, flt) ==
    IF \E i \in 1..Len(docs) : Matches(docs[i], flt)
    THEN CHOOSE i \in 1..Len(docs) :
            Matches(docs[i], flt) /\ \A j \in 1..(i - 1) : ~Matches(docs[j], flt)
    ELSE 0

\* the documents matching flt, in the store's order
RECURSIVE Select(_, _)
Select(docs, flt) ==
    IF docs = <<>> THEN <<>>
    ELSE (IF Matches(Head(docs), flt) THEN <<Head(docs)>> ELSE <<>>)
         \o Select(Tail(docs), flt)

Remove(docs, i) == SubSeq(docs, 1, i - 1) \o SubSeq(docs, i + 1, Len(docs))

Min(a, b) == IF a <= b THEN a ELSE b

\* what a repository function hands back: the exception raised ("none" when
\* it returns), the result's attributes, the calls made and the state left
Returned(exc, g, w, st, calls, r) ==
    [exc |-> exc, instance |-> g.instance, clients |-> g.clients, store |-> st,
     calls |-> calls, inserted_id |-> r.inserted_id, docs |-> r.docs,
     matched_count |-> r.matched_count, modified_count |-> r.modified_count,
     deleted_count |-> r.deleted_count]

NoResult == [inserted_id |-> NoId, docs |-> <<>>, matched_count |-> 0,
             modified_count |-> 0, deleted_count |-> 0]

\* post_data: collection.insert_one(data); the driver adds an ObjectId as
\* _id when data has none, and a duplicate _id is a DuplicateKeyError
post_data(w, databaseName, collection_name, data, fate, fresh) ==
    LET g == get_collection(w, databaseName, collection_name)
        h == g.handle
        id == IF data.id = NoId THEN OidValue(fresh) ELSE data.id
        call == Call("insert_one", h, EmptyObject, data, NoLimit)
    IN  IF ~g.ok THEN Returned("ValueError", g, w, w.store, <<>>, NoResult)
        ELSE IF fate = "fail" \/ \E i \in 1..Len(Coll(w, h)) : Coll(w, h)[i].id = id
             THEN Returned("PyMongoError", g, w, w.store, <<call>>, NoResult)
             ELSE Returned("none", g, w,
                           PutColl(w, h, Append(Coll(w, h), Doc(id, data.f))),
                           <<call>>, [NoResult EXCEPT !.inserted_id = id])

\* get_data: collection.find_one(query), or find_one() for an empty query
get_data(w, databaseName, collection_name, query, fate) ==
    LET g == get_collection(w, databaseName, collection_name)
        h == g.handle
        flt == IF IsEmptyDict(query) THEN EmptyObject ELSE query
        call == Call("find_one", h, flt, EmptyObject, NoLimit)
        i == FirstMatch(Coll(w, h), flt)
    IN  IF ~g.ok THEN Returned("ValueError", g, w, w.store, <<>>, NoResult)
        ELSE IF fate = "fail"
             THEN Returned("PyMongoError", g, w, w.store, <<call>>, NoResult)
             ELSE Returned("none", g, w, w.store, <<call>>,
                           [NoResult EXCEPT !.docs =
                               IF i = 0 THEN <<>> ELSE <<Coll(w, h)[i]>>])

\* get_multiple_data: collection.find(query) or find(), cursor.limit(limit)
\* when limit is truthy, then the whole cursor as a list
get_multiple_data(w, databaseName, collection_name, query, limit, fate) ==
    LET g == get_collection(w, databaseName, collection_name)
        h == g.handle
        flt == IF IsEmptyDict(query) THEN EmptyObject ELSE query
        lim == IF limit # NoLimit /\ limit[1] # 0 THEN limit ELSE NoLimit
        call == Call("find", h, flt, EmptyObject, lim)
        found == Select(Coll(w, h), flt)
    IN  IF ~g.ok THEN Returned("ValueError", g, w, w.store, <<>>, NoResult)
        ELSE IF fate = "fail"
             THEN Returned("PyMongoError", g, w, w.store, <<call>>, NoResult)
             ELSE Returned("none", g, w, w.store, <<call>>,
                           [NoResult EXCEPT !.docs =
                               IF lim = NoLimit THEN found
                               ELSE SubSeq(found, 1, Min(lim[1], Len(found)))])

\* data_update: collection.update_one(filter, update) with update {"$set": arg};
\* the store refuses to change the _id of the document it matched
data_update(w, databaseName, collection_name, filter, update, fate) ==
    LET g == get_collection(w, databaseName, collection_name)
        h == g.handle
        call == Call("update_one", h, filter, update, NoLimit)
        docs == Coll(w, h)
        i == FirstMatch(docs, filter)
        newf == [k \in FieldNames |->
                    IF update.f[k] # NoValue THEN update.f[k] ELSE docs[i].f[k]]
    IN  IF ~g.ok THEN Returned("ValueError", g, w, w.store, <<>>, NoResult)
        ELSE IF fate = "fail"
             THEN Returned("PyMongoError", g, w, w.store, <<call>>, NoResult)
        ELSE IF i = 0
             THEN Returned("none", g, w, w.store, <<call>>, NoResult)
        ELSE IF update.id # NoId /\ update.id # docs[i].id
             THEN Returned("PyMongoError", g, w, w.store, <<call>>, NoResult)
             ELSE Returned("none", g, w,
                           PutColl(w, h, [docs EXCEPT ![i].f = newf]), <<call>>,
                           [NoResult EXCEPT !.matched_count = 1,
                               !.modified_count = IF newf = docs[i].f THEN 0 ELSE 1])

\* variant of data_delete: a failed delete_one is attempted a second time
data_delete_retry(w, databaseName, collection_name, filter, fate) ==
    LET g == get_collection(w, databaseName, collection_name)
        h == g.handle
        call == Call("delete_one", h, filter, EmptyObject, NoLimit)
        i == FirstMatch(Coll(w, h), filter)
    IN  IF ~g.ok THEN Returned("ValueError", g, w, w.store, <<>>, NoResult)
        ELSE IF fate = "fail"
             THEN Returned("PyMongoError", g, w, w.store, <<call, call>>, NoResult)
        ELSE IF i = 0
             THEN Returned("none", g, w, w.store, <<call>>, NoResult)
             ELSE Returned("none", g, w, PutColl(w, h, Remove(Coll(w, h), i)),
                           <<call>>, [NoResult EXCEPT !.deleted_count = 1])

\* data_delete: collection.delete_one(filter)
data_delete(w, databaseName, collection_name, filter, fate) ==
    LET g == get_collection(w, databaseName, collection_name)
        h == g.handle
        call == Call("delete_one", h, filter, EmptyObject, NoLimit)
        i == FirstMatch(Coll(w, h), filter)
    IN  IF ~g.ok THEN Returned("ValueError", g, w, w.store, <<>>, NoResult)
        ELSE IF fate = "fail"
             THEN Returned("PyMongoError", g, w, w.store, <<call>>, NoResult)
        ELSE IF i = 0
             THEN Returned("none", g, w, w.store, <<call>>, NoResult)
             ELSE Returned("none", g, w, PutColl(w, h, Remove(Coll(w, h), i)),
                           <<call>>, [NoResult EXCEPT !.deleted_count = 1])

----------------------------------------------------------------------------
(* The handlers (main.py).  A request carries what FastAPI binds to the    *)
(* handler's parameters; a handler yields the response, the repository     *)
(* calls it made and the state it leaves.                                  *)

\* os.getenv
getenv(w, name) == w.environ[name]

\* variant of Falsy: only None counts as not configured
Falsy_only_none(v) == v = None

\* Python truth of an Optional[str]: None and "" are falsy
Falsy(v) == v = None \/ v = ""
\* Python truth of an optional text: absent and empty are both falsy
Truthy(t) == t.present /\ t.text # <<>>

Forbidden == "Forbidden: invalid admin password for users collection"

\* serialize_doc: a copy of the document with _id replaced by str(_id)
serialize_doc(doc) == [doc EXCEPT !.id = StrValue(str(doc.id))]

\* the filter {"_id": oid}
IdFilter(oid) == [EmptyObject EXCEPT !.id = OidValue(oid.bytes)]

Outcome(status, kind, detail, r, calls, inst, cl, st) ==
    [status |-> status, kind |-> kind, detail |-> detail,
     inserted_id |-> r.inserted_id, docs |-> r.docs,
     matched_count |-> r.matched_count, modified_count |-> r.modified_count,
     deleted_count |-> r.deleted_count,
     calls |-> calls, instance |-> inst, clients |-> cl, store |-> st]

\* raise HTTPException(status_code, detail) before any repository call
Rejected(status, detail, w) ==
    Outcome(status, "error", detail, NoResult, <<>>, w.instance, w.clients, w.store)

\* FastAPI's own answer when the body is not a JSON object (Dict[str, Any])
Unprocessable(w) == Rejected(422, "Input should be a valid dictionary", w)

\* the text of the exception a repository function raised
ExcText(exc) == IF exc = "ValueError"
                THEN "MONGODB_URL environment variable is not set"
                ELSE exc

\* except Exception as e: raise HTTPException(500, f"...{e}")
Failed(prefix, result) ==
    Outcome(500, "error", prefix \o ExcText(result.exc), NoResult, result.calls,
            result.instance, result.clients, result.store)

\* raise HTTPException(404) after find_one returned None
Rejected404(result) ==
    Outcome(404, "error", "Document not found", NoResult, result.calls,
            result.instance, result.clients, result.store)

\* the handler returns body r
Answer(status, kind, result, r) ==
    Outcome(status, kind, "", r, result.calls,
            result.instance, result.clients, result.store)

(* Path- and query-addressed endpoints. *)

\* create_data: POST; the secret gate, then post_data
create_data(req, w, fate, fresh) ==
    LET admin_pass == getenv(w, "ADMIN_PASS")
        result == post_data(w, req.database, req.collection, req.payload.obj, fate, fresh)
    IN  IF ~req.payload.isdict THEN Unprocessable(w)
        ELSE IF Falsy(admin_pass) \/ req.x_password # admin_pass
             THEN Rejected(403, Forbidden, w)
        ELSE IF result.exc # "none"
             THEN Failed("Failed to insert data: ", result)
             ELSE Answer(201, "inserted", result,
                         [NoResult EXCEPT !.inserted_id = StrValue(str(result.inserted_id))])

\* list_data: GET; the query text must be a JSON object
list_data(req, w, fate) ==
    LET parsed == json_loads(req.q.text)
        query == IF Truthy(req.q) THEN parsed.obj ELSE EmptyObject
        results == get_multiple_data(w, req.database, req.collection, query, req.limit, fate)
    IN  IF Truthy(req.q) /\ ~parsed.ok
        THEN Rejected(400, "Invalid JSON for query: JSONDecodeError", w)
        ELSE IF Truthy(req.q) /\ parsed.kind # "object"
             THEN Rejected(500, "Failed to list data: Query must be a JSON object", w)
        ELSE IF results.exc # "none"
             THEN Failed("Failed to list data: ", results)
             ELSE Answer(200, "list", results,
                         [NoResult EXCEPT !.docs =
                             [i \in 1..Len(results.docs) |-> serialize_doc(results.docs[i])]])

\* variant of get_document: the secret gate applied to a read
get_document_gated(req, w, fate) ==
    LET oid == ObjectId(req.id)
        admin_pass == getenv(w, "ADMIN_PASS")
        result == get_data(w, req.database, req.collection, IdFilter(oid), fate)
    IN  IF ~oid.ok THEN Rejected(400, "Invalid ObjectId format", w)
        ELSE IF Falsy(admin_pass) \/ req.x_password # admin_pass
             THEN Rejected(403, Forbidden, w)
        ELSE IF result.exc # "none"
             THEN Failed("Failed to fetch document: ", result)
        ELSE IF result.docs = <<>>
             THEN Rejected404(result)
             ELSE Answer(200, "doc", result,
                         [NoResult EXCEPT !.docs = <<serialize_doc(result.docs[1])>>])

\* get_document: GET one document by its ObjectId
get_document(req, w, fate) ==
    LET oid == ObjectId(req.id)
        result == get_data(w, req.database, req.collection, IdFilter(oid), fate)
    IN  IF ~oid.ok THEN Rejected(400, "Invalid ObjectId format", w)
        ELSE IF result.exc # "none"
             THEN Failed("Failed to fetch document: ", result)
        ELSE IF result.docs = <<>>
             THEN Rejected404(result)
             ELSE Answer(200, "doc", result,
                         [NoResult EXCEPT !.docs = <<serialize_doc(result.docs[1])>>])

\* variant of update_document: an update that matched nothing is a 404
update_document_404(req, w, fate) ==
    LET oid == ObjectId(req.id)
        admin_pass == getenv(w, "ADMIN_PASS")
        result == data_update(w, req.database, req.collection, IdFilter(oid),
                              req.payload.obj, fate)
    IN  IF ~req.payload.isdict THEN Unprocessable(w)
        ELSE IF ~oid.ok THEN Rejected(400, "Invalid ObjectId format", w)
        ELSE IF Falsy(admin_pass) \/ req.x_password # admin_pass
             THEN Rejected(403, Forbidden, w)
        ELSE IF result.exc # "none"
             THEN Failed("Failed to update document: ", result)
        ELSE IF result.matched_count = 0
             THEN Rejected404(result)
             ELSE Answer(200, "updated", result,
                         [NoResult EXCEPT !.matched_count = result.matched_count,
                                          !.modified_count = result.modified_count])

\* update_document: PUT; ObjectId, then the secret gate, then data_update
update_document(req, w, fate) ==
    LET oid == ObjectId(req.id)
        admin_pass == getenv(w, "ADMIN_PASS")
        result == data_update(w, req.database, req.collection, IdFilter(oid),
                              req.payload.obj, fate)
    IN  IF ~req.payload.isdict THEN Unprocessable(w)
        ELSE IF ~oid.ok THEN Rejected(400, "Invalid ObjectId format", w)
        ELSE IF Falsy(admin_pass) \/ req.x_password # admin_pass
             THEN Rejected(403, Forbidden, w)
        ELSE IF result.exc # "none"
             THEN Failed("Failed to update document: ", result)
             ELSE Answer(200, "updated", result,
                         [NoResult EXCEPT !.matched_count = result.matched_count,
                                          !.modified_count = result.modified_count])

\* delete_document: DELETE; ObjectId, then the secret gate, then data_delete
delete_document(req, w, fate) ==
    LET oid == ObjectId(req.id)
        admin_pass == getenv(w, "ADMIN_PASS")
        result == data_delete(w, req.database, req.collection, IdFilter(oid), fate)
    IN  IF ~oid.ok THEN Rejected(400, "Invalid ObjectId format", w)
        ELSE IF Falsy(admin_pass) \/ req.x_password # admin_pass
             THEN Rejected(403, Forbidden, w)
        ELSE IF result.exc # "none"
             THEN Failed("Failed to delete document: ", result)
             ELSE Answer(200, "deleted", result,
                         [NoResult EXCEPT !.deleted_count = result.deleted_count])

(* Header-addressed endpoints: X-Database, X-Collection, X-Id, X-Query,    *)
(* X-Limit.                                                                *)

\* create_data_headers: POST; the secret gate, then post_data
create_data_headers(req, w, fate, fresh) ==
    LET admin_pass == getenv(w, "ADMIN_PASS")
        result == post_data(w, req.x_database, req.x_collection, req.payload.obj, fate, fresh)
    IN  IF ~req.payload.isdict THEN Unprocessable(w)
        ELSE IF Falsy(admin_pass) \/ req.x_password # admin_pass
             THEN Rejected(403, Forbidden, w)
        ELSE IF result.exc # "none"
             THEN Failed("Failed to insert data: ", result)
             ELSE Answer(201, "inserted", result,
                         [NoResult EXCEPT !.inserted_id = StrValue(str(result.inserted_id))])

\* list_data_headers: GET; the query text must be a JSON object
list_data_headers(req, w, fate) ==
    LET parsed == json_loads(req.x_query.text)
        query == IF Truthy(req.x_query) THEN parsed.obj ELSE EmptyObject
        results == get_multiple_data(w, req.x_database, req.x_collection, query, req.x_limit, fate)
    IN  IF Truthy(req.x_query) /\ ~parsed.ok
        THEN Rejected(400, "Invalid JSON for query: JSONDecodeError", w)
        ELSE IF Truthy(req.x_query) /\ parsed.kind # "object"
             THEN Rejected(500, "Failed to list data: Query must be a JSON object", w)
        ELSE IF results.exc # "none"
             THEN Failed("Failed to list data: ", results)
             ELSE Answer(200, "list", results,
                         [NoResult EXCEPT !.docs =
                             [i \in 1..Len(results.docs) |-> serialize_doc(results.docs[i])]])

\* get_document_headers: GET one document by its ObjectId
get_document_headers(req, w, fate) ==
    LET oid == ObjectId(req.x_id)
        result == get_data(w, req.x_database, req.x_collection, IdFilter(oid), fate)
    IN  IF ~oid.ok THEN Rejected(400, "Invalid ObjectId format", w)
        ELSE IF result.exc # "none"
             THEN Failed("Failed to fetch document: ", result)
        ELSE IF result.docs = <<>>
             THEN Rejected404(result)
             ELSE Answer(200, "doc", result,
                         [NoResult EXCEPT !.docs = <<serialize_doc(result.docs[1])>>])

\* variant of update_document_headers: the secret gate before ObjectId
update_document_headers_gate_first(req, w, fate) ==
    LET oid == ObjectId(req.x_id)
        admin_pass == getenv(w, "ADMIN_PASS")
        result == data_update(w, req.x_database, req.x_collection, IdFilter(oid),
                              req.payload.obj, fate)
    IN  IF ~req.payload.isdict THEN Unprocessable(w)
        ELSE IF Falsy(admin_pass) \/ req.x_password # admin_pass
             THEN Rejected(403, Forbidden, w)
        ELSE IF ~oid.ok THEN Rejected(400, "Invalid ObjectId format", w)
        ELSE IF result.exc # "none"
             THEN Failed("Failed to update document: ", result)
             ELSE Answer(200, "updated", result,
                         [NoResult EXCEPT !.matched_count = result.matched_count,
                                          !.modified_count = result.modified_count])

\* update_document_headers: PUT; ObjectId, then the secret gate, then data_update
update_document_headers(req, w, fate) ==
    LET oid == ObjectId(req.x_id)
        admin_pass == getenv(w, "ADMIN_PASS")
        result == data_update(w, req.x_database, req.x_collection, IdFilter(oid),
                              req.payload.obj, fate)
    IN  IF ~req.payload.isdict THEN Unprocessable(w)
        ELSE IF ~oid.ok THEN Rejected(400, "Invalid ObjectId format", w)
        ELSE IF Falsy(admin_pass) \/ req.x_password # admin_pass
             THEN Rejected(403, Forbidden, w)
        ELSE IF result.exc # "none"
             THEN Failed("Failed to update document: ", result)
             ELSE Answer(200, "updated", result,
                         [NoResult EXCEPT !.matched_count = result.matched_count,
                                          !.modified_count = result.modified_count])

\* variant of delete_document_headers: the secret compared only when the
\* header is present
delete_document_headers_optional_secret(req, w, fate) ==
    LET oid == ObjectId(req.x_id)
        admin_pass == getenv(w, "ADMIN_PASS")
        result == data_delete(w, req.x_database, req.x_collection, IdFilter(oid), fate)
    IN  IF ~oid.ok THEN Rejected(400, "Invalid ObjectId format", w)
        ELSE IF req.x_password # None
                /\ (Falsy(admin_pass) \/ req.x_password # admin_pass)
             THEN Rejected(403, Forbidden, w)
        ELSE IF result.exc # "none"
             THEN Failed("Failed to delete document: ", result)
             ELSE Answer(200, "deleted", result,
                         [NoResult EXCEPT !.deleted_count = result.deleted_count])

\* delete_document_headers: DELETE; ObjectId, then the secret gate, then data_delete
delete_document_headers(req, w, fate) ==
    LET oid == ObjectId(req.x_id)
        admin_pass == getenv(w, "ADMIN_PASS")
        result == data_delete(w, req.x_database, req.x_collection, IdFilter(oid), fate)
    IN  IF ~oid.ok THEN Rejected(400, "Invalid ObjectId format", w)
        ELSE IF Falsy(admin_pass) \/ req.x_password # admin_pass
             THEN Rejected(403, Forbidden, w)
        ELSE IF result.exc # "none"
             THEN Failed("Failed to delete document: ", result)
             ELSE Answer(200, "deleted", result,
                         [NoResult EXCEPT !.deleted_count = result.deleted_count])

----------------------------------------------------------------------------
(* Inputs. *)

RECURSIVE Rep(_, _)
Rep(s, n) == IF n = 0 THEN <<>> ELSE s \o Rep(s, n - 1)

\* ObjectIds the driver generates
Oid(k) == [i \in 1..OidBytes |-> 160 + k]
GenOids == {Oid(1), Oid(2)}

\* identifier strings a client sends: the hex of Oid(1); the hex of Oid(2)
\* in upper case; 23 characters; a letter that is no hex digit; 24
\* characters that are eight bytes separated by blanks
IdLower == Rep(<<"a","1">>, OidBytes)
IdUpper == Rep(<<"A","2">>, OidBytes)
IdShort == SubSeq(IdLower, 1, OidHexLen - 1)
IdNonHex == <<"g">> \o SubSeq(IdLower, 1, OidHexLen - 1)
IdSpaced == Rep(<<"a","1"," ">>, 7) \o <<" ","a","1">>
Ids == {IdLower, IdUpper, IdShort, IdNonHex, IdSpaced}

Dict(o) == [isdict |-> TRUE, obj |-> o]
NotADict == [isdict |-> FALSE, obj |-> EmptyObject]
Named(n) == [EmptyObject EXCEPT !.f["name"] = n]
\* bodies: {"name": "Alice"}, {"name": "Bob"}, {"_id": "a1a1...", "name":
\* "Alice"}, and a body that is no JSON object
Payloads == {Dict(Named(Alice)), Dict(Named(Bob)),
             Dict([Named(Alice) EXCEPT !.id = StrValue(IdLower)]), NotADict}

Secret == "s3cret"
Passwords == {None, "", Secret, "guess"}
AdminPasses == {None, "", Secret}
MongoUrls == {None, "mongodb://db"}

Text(t) == [present |-> TRUE, text |-> t]
NoText == [present |-> FALSE, text |-> <<>>]
\* query texts: {"name": "Alice"}   [1]   1   {   and none
QObject == Text(<<Punct("{"), StrTok(FieldText("name")), Punct(":"),
                  StrTok(Alice), Punct("}")>>)
QArray == Text(<<Punct("["), NumTok(<<"1">>), Punct("]")>>)
QNumber == Text(<<NumTok(<<"1">>)>>)
QMalformed == Text(<<Punct("{")>>)
Queries == {NoText, QObject, QArray, QNumber, QMalformed}

Limits == {NoLimit, <<0>>, <<1>>}

\* requests by endpoint, path-addressed
CreateReqs == [ep : {"create_data"}, database : Databases, collection : Collections,
               payload : Payloads, x_password : Passwords]
ListReqs == [ep : {"list_data"}, database : Databases, collection : Collections,
             q : Queries, limit : Limits, x_password : Passwords]
GetReqs == [ep : {"get_document"}, database : Databases, collection : Collections,
            id : Ids, x_password : Passwords]
UpdateReqs == [ep : {"update_document"}, database : Databases,
               collection : Collections, id : Ids, payload : Payloads,
               x_password : Passwords]
DeleteReqs == [ep : {"delete_document"}, database : Databases,
               collection : Collections, id : Ids, x_password : Passwords]

\* requests by endpoint, header-addressed
CreateHdrReqs == [ep : {"create_data_headers"}, x_database : Databases,
                  x_collection : Collections, payload : Payloads,
                  x_password : Passwords]
ListHdrReqs == [ep : {"list_data_headers"}, x_database : Databases,
                x_collection : Collections, x_query : Queries, x_limit : Limits,
                x_password : Passwords]
GetHdrReqs == [ep : {"get_document_headers"}, x_database : Databases,
               x_collection : Collections, x_id : Ids, x_password : Passwords]
UpdateHdrReqs == [ep : {"update_document_headers"}, x_database : Databases,
                  x_collection : Collections, x_id : Ids, payload : Payloads,
                  x_password : Passwords]
DeleteHdrReqs == [ep : {"delete_document_headers"}, x_database : Databases,
                  x_collection : Collections, x_id : Ids, x_password : Passwords]

----------------------------------------------------------------------------
(* The state machine. *)

RECURSIVE SumLen(_, _)
SumLen(st, pairs) ==
    IF pairs = {} THEN 0
    ELSE LET p == CHOOSE x \in pairs : TRUE
         IN  Len(st[p[1]][p[2]]) + SumLen(st, pairs \ {p})
TotalDocs(st) == SumLen(st, Databases \X Collections)

Response(o) == [status |-> o.status, kind |-> o.kind, detail |-> o.detail,
                inserted_id |-> o.inserted_id, docs |-> o.docs,
                matched_count |-> o.matched_count,
                modified_count |-> o.modified_count,
                deleted_count |-> o.deleted_count]

\* no request is being answered
Idle == [req |-> [ep |-> "idle"],
         resp |-> [status |-> 0, kind |-> "none", detail |-> "",
                   inserted_id |-> NoId, docs |-> <<>>, matched_count |-> 0,
                   modified_count |-> 0, deleted_count |-> 0],
         calls |-> <<>>, fate |-> "ok"]

Init ==
    /\ environ \in [ADMIN_PASS : AdminPasses, MONGODB_URL : MongoUrls]
    /\ instance = 0
    /\ clients = <<>>
    /\ store = [d \in Databases |-> [c \in Collections |-> <<>>]]
    /\ last = Idle

\* a request is served: outcome o becomes the state
Serve(req, o, fate) ==
    /\ last.req.ep = "idle"
    /\ TotalDocs(o.store) <= MaxDocs
    /\ Len(o.clients) <= MaxClients
    /\ instance' = o.instance
    /\ clients' = o.clients
    /\ store' = o.store
    /\ last' = [req |-> req, resp |-> Response(o), calls |-> o.calls,
                fate |-> IF o.calls = <<>> THEN "ok" ELSE fate]
    /\ UNCHANGED environ

CreateData ==
    \E req \in CreateReqs, fate \in Fates, fresh \in GenOids :
        Serve(req, create_data(req, World, fate, fresh), fate)
ListData ==
    \E req \in ListReqs, fate \in Fates : Serve(req, list_data(req, World, fate), fate)
GetDocument ==
    \E req \in GetReqs, fate \in Fates : Serve(req, get_document(req, World, fate), fate)
UpdateDocument ==
    \E req \in UpdateReqs, fate \in Fates :
        Serve(req, update_document(req, World, fate), fate)
DeleteDocument ==
    \E req \in DeleteReqs, fate \in Fates :
        Serve(req, delete_document(req, World, fate), fate)
CreateDataHeaders ==
    \E req \in CreateHdrReqs, fate \in Fates, fresh \in GenOids :
        Serve(req, create_data_headers(req, World, fate, fresh), fate)
ListDataHeaders ==
    \E req \in ListHdrReqs, fate \in Fates :
        Serve(req, list_data_headers(req, World, fate), fate)
GetDocumentHeaders ==
    \E req \in GetHdrReqs, fate \in Fates :
        Serve(req, get_document_headers(req, World, fate), fate)
UpdateDocumentHeaders ==
    \E req \in UpdateHdrReqs, fate \in Fates :
        Serve(req, update_document_headers(req, World, fate), fate)
DeleteDocumentHeaders ==
    \E req \in DeleteHdrReqs, fate \in Fates :
        Serve(req, delete_document_headers(req, World, fate), fate)

\* A direct call of a method of connection_manager (by a shutdown hook, a
\* health probe, ...): m is what the method yields, kind how it ended
Called(name, m, kind, fate) ==
    /\ last.req.ep = "idle"
    /\ Len(m.clients) <= MaxClients
    /\ instance' = m.instance
    /\ clients' = m.clients
    /\ last' = [Idle EXCEPT !.req.ep = name, !.resp.kind = kind, !.fate = fate]
    /\ UNCHANGED <<environ, store>>

GetDatabase ==
    \E d \in Databases :
        LET m == get_database(World, d)
        IN  Called("get_database", m, IF m.ok THEN "returned" ELSE "ValueError", "ok")
GetCollection ==
    \E d \in Databases, c \in Collections :
        LET m == get_collection(World, d, c)
        IN  Called("get_collection", m, IF m.ok THEN "returned" ELSE "ValueError", "ok")
Ping ==
    \E fate \in Fates :
        LET m == ping(World, fate)
        IN  Called("ping", m, IF ~m.ok THEN "ValueError"
                              ELSE IF m.value THEN "True" ELSE "False", fate)
CloseConnection ==
    LET m == close_connection(World)
    IN  Called("close_connection", m, IF m.ok THEN "returned" ELSE "ValueError",
               "ok")

\* the response leaves the process
SendResponse ==
    /\ last.req.ep # "idle"
    /\ last' = Idle
    /\ UNCHANGED <<environ, instance, clients, store>>

Next ==
    \/ CreateData
    \/ ListData
    \/ GetDocument
    \/ UpdateDocument
    \/ DeleteDocument
    \/ CreateDataHeaders
    \/ ListDataHeaders
    \/ GetDocumentHeaders
    \/ UpdateDocumentHeaders
    \/ DeleteDocumentHeaders
    \/ GetDatabase
    \/ GetCollection
    \/ Ping
    \/ CloseConnection
    \/ SendResponse

Spec == Init /\ [][Next]_vars

----------------------------------------------------------------------------
(* The process environment is mutable while the process runs (os.environ,  *)
(* which os.getenv and os.environ.get read at each call).  SpecEnv adds    *)
(* the steps that change ADMIN_PASS or MONGODB_URL between two calls.      *)

SetEnv ==
    /\ \/ \E v \in AdminPasses : environ' = [environ EXCEPT !.ADMIN_PASS = v]
       \/ \E v \in MongoUrls : environ' = [environ EXCEPT !.MONGODB_URL = v]
    /\ environ' # environ
    /\ UNCHANGED <<instance, clients, store, last>>

NextEnv ==
    \/ Next
    \/ SetEnv

SpecEnv == Init /\ [][NextEnv]_vars

----------------------------------------------------------------------------
(* Vocabulary of the properties. *)

InsertEps == {"create_data", "create_data_headers"}
UpdateEps == {"update_document", "update_document_headers"}
DeleteEps == {"delete_document", "delete_document_headers"}
ListEps == {"list_data", "list_data_headers"}
GetEps == {"get_document", "get_document_headers"}
MutationEps == InsertEps \cup UpdateEps \cup DeleteEps
ReadEps == ListEps \cup GetEps
IdEps == GetEps \cup UpdateEps \cup DeleteEps
HeaderEps == {"create_data_headers", "list_data_headers", "get_document_headers",
              "update_document_headers", "delete_document_headers"}
MutationOps == {"insert_one", "update_one", "delete_one"}

\* the identifier, the query text and the body of a request, in either
\* addressing mode
IdOf(req) == IF req.ep \in HeaderEps THEN req.x_id ELSE req.id
QueryOf(req) == IF req.ep \in HeaderEps THEN req.x_query ELSE req.q
DatabaseOf(req) == IF req.ep \in HeaderEps THEN req.x_database ELSE req.database
CollectionOf(req) == IF req.ep \in HeaderEps THEN req.x_collection ELSE req.collection

\* exactly 24 hexadecimal characters
IsHex24(s) == Len(s) = 24 /\ \A i \in 1..Len(s) : IsHexChar(s[i])

\* a client error
Is4xx(status) == status >= 400 /\ status <= 499

\* the request's X-Password is not the configured secret, or none is configured
WrongSecret(req) ==
    \/ req.x_password = None
    \/ req.x_password # environ.ADMIN_PASS
    \/ environ.ADMIN_PASS \in {None, ""}

\* the rest of a mutation request is well formed: a JSON-object body where
\* one is taken, a parsable identifier where one is taken
WellFormed(req) ==
    /\ req.ep \in InsertEps \cup UpdateEps => req.payload.isdict
    /\ req.ep \in IdEps => ObjectId(IdOf(req)).ok

----------------------------------------------------------------------------
(* C1.  The store changes only in a step that serves a mutation request    *)
(* whose X-Password equals the configured, non-empty ADMIN_PASS, through   *)
(* one insert_one, update_one or delete_one; and while ADMIN_PASS is unset *)
(* or empty every mutation request, in either addressing mode and whatever *)
(* its X-Password, is rejected with no repository call and no change.      *)
C1_StoreChangedOnlyWithSecret ==
    [][ /\ store' # store =>
            /\ last'.req.ep \in MutationEps
            /\ environ.ADMIN_PASS \notin {None, ""}
            /\ last'.req.x_password = environ.ADMIN_PASS
            /\ Len(last'.calls) = 1 /\ last'.calls[1].op \in MutationOps
        /\ (last'.req.ep \in MutationEps /\ environ.ADMIN_PASS \in {None, ""}) =>
            /\ last'.resp.status \in {400, 403, 422}
            /\ last'.calls = <<>>
            /\ store' = store ]_vars

\* the server has the empty string as ADMIN_PASS, a delete arrives with the
\* empty string as X-Password, and is refused
C1_Witness ==
    /\ environ.ADMIN_PASS = ""
    /\ last.req.ep = "delete_document_headers"
    /\ last.req.x_password = ""
    /\ ObjectId(last.req.x_id).ok
    /\ last.resp.status = 403

(* C2 as claimed.  A mutation request whose X-Password is absent or is not *)
(* the configured secret is answered 403 whatever its identifier and body. *)
C2_Original ==
    (last.req.ep \in MutationEps /\ WrongSecret(last.req)) => last.resp.status = 403

(* C2, amended.  A mutation request that is well formed (a JSON-object     *)
(* body, an identifier ObjectId accepts) and whose X-Password is absent or *)
(* is not the configured secret is answered 403 with no repository call,   *)
(* also when no secret is configured.                                      *)
C2_Forbidden ==
    (last.req.ep \in MutationEps /\ WrongSecret(last.req) /\ WellFormed(last.req))
        => (last.resp.status = 403 /\ last.calls = <<>>)

\* an update with a valid identifier and body and a guessed password, while
\* a secret is configured, is refused
C2_Witness ==
    /\ last.req.ep = "update_document"
    /\ environ.ADMIN_PASS = Secret
    /\ last.req.x_password = "guess"
    /\ last.req.id = IdLower
    /\ last.req.payload.isdict
    /\ last.resp.status = 403

----------------------------------------------------------------------------
(* Equivalent requests of the two addressing modes. *)

PathEp(ep) ==
    CASE ep = "create_data_headers" -> "create_data"
      [] ep = "list_data_headers" -> "list_data"
      [] ep = "get_document_headers" -> "get_document"
      [] ep = "update_document_headers" -> "update_document"
      [] ep = "delete_document_headers" -> "delete_document"
      [] OTHER -> ep
HeaderEp(ep) ==
    CASE ep = "create_data" -> "create_data_headers"
      [] ep = "list_data" -> "list_data_headers"
      [] ep = "get_document" -> "get_document_headers"
      [] ep = "update_document" -> "update_document_headers"
      [] ep = "delete_document" -> "delete_document_headers"
      [] OTHER -> ep

\* the request of the other addressing mode with the same parameters
Mirror(req) ==
    LET ep == req.ep
        hdr == ep \in HeaderEps
        ep2 == IF hdr THEN PathEp(ep) ELSE HeaderEp(ep)
        d == DatabaseOf(req)
        c == CollectionOf(req)
        pw == req.x_password
    IN  IF ep \in InsertEps
        THEN IF hdr THEN [ep |-> ep2, database |-> d, collection |-> c,
                          payload |-> req.payload, x_password |-> pw]
                    ELSE [ep |-> ep2, x_database |-> d, x_collection |-> c,
                          payload |-> req.payload, x_password |-> pw]
        ELSE IF ep \in ListEps
        THEN IF hdr THEN [ep |-> ep2, database |-> d, collection |-> c,
                          q |-> req.x_query, limit |-> req.x_limit,
                          x_password |-> pw]
                    ELSE [ep |-> ep2, x_database |-> d, x_collection |-> c,
                          x_query |-> req.q, x_limit |-> req.limit,
                          x_password |-> pw]
        ELSE IF ep \in UpdateEps
        THEN IF hdr THEN [ep |-> ep2, database |-> d, collection |-> c,
                          id |-> req.x_id, payload |-> req.payload,
                          x_password |-> pw]
                    ELSE [ep |-> ep2, x_database |-> d, x_collection |-> c,
                          x_id |-> req.id, payload |-> req.payload,
                          x_password |-> pw]
        ELSE IF hdr THEN [ep |-> ep2, database |-> d, collection |-> c,
                          id |-> req.x_id, x_password |-> pw]
                    ELSE [ep |-> ep2, x_database |-> d, x_collection |-> c,
                          x_id |-> req.id, x_password |-> pw]

\* the handler the router calls for a request
Handle(req, w, fate, fresh) ==
    CASE req.ep = "create_data" -> create_data(req, w, fate, fresh)
      [] req.ep = "list_data" -> list_data(req, w, fate)
      [] req.ep = "get_document" -> get_document(req, w, fate)
      [] req.ep = "update_document" -> update_document(req, w, fate)
      [] req.ep = "delete_document" -> delete_document(req, w, fate)
      [] req.ep = "create_data_headers" -> create_data_headers(req, w, fate, fresh)
      [] req.ep = "list_data_headers" -> list_data_headers(req, w, fate)
      [] req.ep = "get_document_headers" -> get_document_headers(req, w, fate)
      [] req.ep = "update_document_headers" -> update_document_headers(req, w, fate)
      [] req.ep = "delete_document_headers" -> delete_document_headers(req, w, fate)

\* outcome o is what this step did
IsThisStep(o) ==
    /\ Response(o) = last'.resp
    /\ o.calls = last'.calls
    /\ o.store = store'
    /\ o.instance = instance'
    /\ o.clients = clients'

(* C3.  Whenever a request is served, its mirror in the other addressing   *)
(* mode (same database, collection, id, query, limit, secret and body),    *)
(* served instead in the same state with the store behaving the same way,  *)
(* makes the same repository call with the same arguments, returns the     *)
(* same status and body and leaves the same state, on every path.          *)
C3_ModesAgree ==
    [][ last'.req.ep \in MutationEps \cup ReadEps =>
            \E fresh \in GenOids :
                IsThisStep(Handle(Mirror(last'.req), World, last'.fate, fresh)) ]_vars

\* a header-addressed update has changed a document
C3_Witness ==
    /\ last.req.ep = "update_document_headers"
    /\ last.resp.status = 200
    /\ last.resp.modified_count = 1
    /\ Len(last.calls) = 1

(* C4 as claimed.  An identifier that is not exactly 24 hexadecimal        *)
(* characters, given to a get, update or delete endpoint, ends in a 4xx    *)
(* and no repository operation is invoked.                                 *)
C4_BadIdNeverReachesStore ==
    (last.req.ep \in IdEps /\ ~IsHex24(IdOf(last.req)))
        => (Is4xx(last.resp.status) /\ last.calls = <<>>)

(* C5 as claimed.  On the list endpoints a non-empty query text that is    *)
(* valid JSON but not an object is answered with a 4xx, before any         *)
(* repository call.                                                        *)
C5_NonObjectQueryIsClientError ==
    (/\ last.req.ep \in ListEps
     /\ Truthy(QueryOf(last.req))
     /\ json_loads(QueryOf(last.req).text).ok
     /\ json_loads(QueryOf(last.req).text).kind # "object")
        => (Is4xx(last.resp.status) /\ last.calls = <<>>)

(* C6.  connection_manager._instance is set once, to a client constructed  *)
(* in that step, and never changes afterwards, under every interleaving of *)
(* requests and of get_collection, get_database, ping and close_connection;*)
(* every repository call is made on a handle of the stored client.         *)
C6_OneSharedClient ==
    [][ /\ instance # 0 => instance' = instance
        /\ instance' # instance =>
              /\ instance' = Len(clients')
              /\ Len(clients') = Len(clients) + 1
        /\ \A i \in 1..Len(last'.calls) :
              last'.calls[i].client = instance' /\ instance' # 0 ]_vars

\* a request is served by the stored client after close_connection was
\* called once before the client existed and once after
C6_Witness ==
    /\ Len(clients) = 2
    /\ instance = 2
    /\ clients[2].closed
    /\ last.req.ep \in ReadEps
    /\ Len(last.calls) = 1

\* the get-by-id requests, one per addressing mode, for identifier text id
GetById(d, c, id) ==
    {[ep |-> "get_document", database |-> d, collection |-> c, id |-> id,
      x_password |-> None],
     [ep |-> "get_document_headers", x_database |-> d, x_collection |-> c,
      x_id |-> id, x_password |-> None]}

(* C7 as claimed.  After an authorized insert has returned inserted_id, a  *)
(* get-by-id with that identifier, in either addressing mode, returns the  *)
(* inserted body plus _id, the _id being the string the insert returned.   *)
C7_InsertThenGet ==
    (last.req.ep \in InsertEps /\ last.resp.status = 201) =>
        \A g \in GetById(DatabaseOf(last.req), CollectionOf(last.req),
                         last.resp.inserted_id.text) :
            LET o == Handle(g, World, "ok", Oid(1))
            IN  /\ o.status = 200
                /\ o.docs = <<[id |-> last.resp.inserted_id,
                               f |-> last.req.payload.obj.f]>>

\* the store can be reached: a connection string is configured
Configured == environ.MONGODB_URL \notin {None, ""}

\* the request carries the configured, non-empty secret
HasSecret(req) ==
    environ.ADMIN_PASS \notin {None, ""} /\ req.x_password = environ.ADMIN_PASS

(* C8.  An authorized update or delete with a valid identifier that        *)
(* matches no document, the store being reachable and applying the         *)
(* operation, is answered 200 with matched_count = 0 and modified_count =  *)
(* 0, respectively deleted_count = 0, and leaves the store unchanged.      *)
C8_NoMatchIsSuccess ==
    [][ ( /\ last'.req.ep \in UpdateEps \cup DeleteEps
          /\ HasSecret(last'.req)
          /\ IsHex24(IdOf(last'.req))
          /\ last'.req.ep \in UpdateEps => last'.req.payload.isdict
          /\ Configured
          /\ last'.fate = "ok"
          /\ FirstMatch(store[DatabaseOf(last'.req)][CollectionOf(last'.req)],
                        IdFilter(ObjectId(IdOf(last'.req)))) = 0 )
        => ( /\ last'.resp.status = 200
             /\ last'.req.ep \in UpdateEps =>
                  /\ last'.resp.kind = "updated"
                  /\ last'.resp.matched_count = 0
                  /\ last'.resp.modified_count = 0
             /\ last'.req.ep \in DeleteEps =>
                  /\ last'.resp.kind = "deleted"
                  /\ last'.resp.deleted_count = 0
             /\ Len(last'.calls) = 1
             /\ store' = store ) ]_vars

\* an authorized delete found nothing to delete in a collection that holds
\* another document
C8_Witness ==
    /\ last.req.ep = "delete_document"
    /\ last.resp.status = 200
    /\ last.resp.kind = "deleted"
    /\ last.resp.deleted_count = 0
    /\ Len(store["test"]["users"]) > 0

(* C9.  A read request (find-one by id, find-many; either mode) never      *)
(* changes the store, and its response, its repository call and the state  *)
(* it leaves are the same whatever X-Password it carries and whatever      *)
(* ADMIN_PASS is configured.                                               *)
C9_ReadsNeedNoSecret ==
    [][ last'.req.ep \in ReadEps =>
          /\ store' = store
          /\ \A pw \in Passwords, ap \in AdminPasses :
                IsThisStep(Handle([last'.req EXCEPT !.x_password = pw],
                                  [World EXCEPT !.environ.ADMIN_PASS = ap],
                                  last'.fate, Oid(1))) ]_vars

\* documents are listed for a request without X-Password while a secret is
\* configured
C9_Witness ==
    /\ last.req.ep = "list_data_headers"
    /\ last.req.x_password = None
    /\ environ.ADMIN_PASS = Secret
    /\ last.resp.status = 200
    /\ Len(last.resp.docs) >= 1

\* the text with its upper-case hex letters in lower case
ToLower(s) ==
    [i \in 1..Len(s) |->
        IF \E j \in 1..16 : HexUpper[j] = s[i]
        THEN HexLower[CHOOSE j \in 1..16 : HexUpper[j] = s[i]]
        ELSE s[i]]

(* C10 as claimed.  Every string of 24 hexadecimal characters, in either   *)
(* case, is accepted by the identifier parse, and the serializer renders   *)
(* the parsed identifier as exactly the string supplied.                   *)
C10_Original ==
    (last.req.ep \in IdEps /\ IsHex24(IdOf(last.req))) =>
        /\ ObjectId(IdOf(last.req)).ok
        /\ last.resp.detail # "Invalid ObjectId format"
        /\ (last.req.ep \in GetEps /\ last.resp.status = 200) =>
              last.resp.docs[1].id = StrValue(IdOf(last.req))

(* C10, amended.  Every string of 24 hexadecimal characters, in either     *)
(* case, is accepted by the identifier parse, and the serializer renders   *)
(* the parsed identifier as the supplied string in lower case: the same    *)
(* string when it has no upper-case letter.                                *)
C10_RoundTripLowerCase ==
    (last.req.ep \in IdEps /\ IsHex24(IdOf(last.req))) =>
        /\ ObjectId(IdOf(last.req)).ok
        /\ last.resp.detail # "Invalid ObjectId format"
        /\ (last.req.ep \in GetEps /\ last.resp.status = 200) =>
              last.resp.docs[1].id = StrValue(ToLower(IdOf(last.req)))

\* a document is fetched by the upper-case spelling of its identifier
C10_Witness ==
    /\ last.req.ep = "get_document"
    /\ last.req.id = IdUpper
    /\ last.resp.status = 200
    /\ last.resp.docs[1].id = StrValue(ToLower(IdUpper))

----------------------------------------------------------------------------
(* C11 as claimed.  close_connection() on the connection manager completes *)
(* without raising in every state and every configuration, a missing       *)
(* connection string included: a stored client is closed and stays stored; *)
(* with none stored a disposable client is constructed and closed and the  *)
(* manager stays uninitialized.                                            *)
C11_CloseIsSafe ==
    [][ last'.req.ep = "close_connection" =>
          /\ last'.resp.kind = "returned"
          /\ instance' = instance
          /\ instance # 0 =>
                /\ Len(clients') = Len(clients)
                /\ clients'[instance].closed
          /\ instance = 0 =>
                /\ Len(clients') = Len(clients) + 1
                /\ clients'[Len(clients')].closed ]_vars

\* the request passes every check that precedes the repository call: its
\* body is a JSON object, ObjectId accepts its identifier, its query text is
\* absent, empty or a JSON object, and a mutation carries the secret
ReachesExecute(req) ==
    /\ req.ep \in InsertEps \cup UpdateEps => req.payload.isdict
    /\ req.ep \in IdEps => ObjectId(IdOf(req)).ok
    /\ (req.ep \in ListEps /\ Truthy(QueryOf(req))) =>
          /\ json_loads(QueryOf(req).text).ok
          /\ json_loads(QueryOf(req).text).kind = "object"
    /\ req.ep \in MutationEps => HasSecret(req)

(* C12.  The manager is created uninitialized whatever the configuration.  *)
(* While it is uninitialized and MONGODB_URL is unset or empty, a request  *)
(* that reaches the repository call is answered 500 without a store        *)
(* operation and the manager stays uninitialized; once MONGODB_URL is set, *)
(* also after such failures, the next such request constructs the shared   *)
(* client from the value then in the environment, stores it and makes its  *)
(* store operation.                                                        *)
C12_FailsAtFirstAccess ==
    [][ ( /\ last.req.ep = "idle"
          /\ last'.req.ep \in MutationEps \cup ReadEps
          /\ ReachesExecute(last'.req)
          /\ instance = 0 )
        => IF Configured
           THEN /\ instance' = Len(clients')
                /\ Len(clients') = Len(clients) + 1
                /\ clients'[instance'] = [uri |-> environ.MONGODB_URL, closed |-> FALSE]
                /\ Len(last'.calls) = 1
                /\ last'.calls[1].client = instance'
                /\ last'.fate = "ok" /\ last'.req.ep \in ReadEps =>
                      last'.resp.status \in {200, 404}
           ELSE /\ last'.resp.status = 500
                /\ last'.calls = <<>>
                /\ instance' = 0
                /\ clients' = clients
                /\ store' = store ]_vars

\* a request that reached the repository call was answered 500 by a process
\* without MONGODB_URL whose manager stayed uninitialized, and the variable
\* has been set since
C12_Witness ==
    /\ last.req.ep \in MutationEps \cup ReadEps
    /\ ReachesExecute(last.req)
    /\ last.resp.status = 500
    /\ last.calls = <<>>
    /\ instance = 0
    /\ Configured

(* C13 as claimed.  ADMIN_PASS and MONGODB_URL are each read from the      *)
(* environment once, at first use.  Once a mutation request has been taken *)
(* to the secret gate (ADMIN_PASS has been read), a change of ADMIN_PASS   *)
(* does not change the gate's decision on that request served again; once  *)
(* a client has been constructed (MONGODB_URL has been read), the client   *)
(* the manager hands out next, stored or newly constructed, has the        *)
(* connection string of the first client, whatever MONGODB_URL has become. *)
C13_EnvReadOnce ==
    [][ LET after == [environ |-> environ', instance |-> instance',
                      clients |-> clients', store |-> store']
            again == _get_instance(after)
        IN  /\ ( /\ environ'.ADMIN_PASS # environ.ADMIN_PASS
                 /\ last.req.ep \in MutationEps
                 /\ WellFormed(last.req) )
               => ( Handle(last.req, after, "ok", Oid(1)).status = 403
                      <=> last.resp.status = 403 )
            /\ Len(clients') > 0 =>
                  /\ again.ok
                  /\ again.clients[again.instance].uri = clients'[1].uri ]_vars

\* the store operation an endpoint stands for
OpOf(ep) ==
    CASE ep \in InsertEps -> "insert_one"
      [] ep \in UpdateEps -> "update_one"
      [] ep \in DeleteEps -> "delete_one"
      [] ep \in ListEps -> "find"
      [] ep \in GetEps -> "find_one"

(* C14.  A request makes at most one repository call, the one its endpoint *)
(* stands for, and makes it only when every check before it has passed:    *)
(* the body is a JSON object, ObjectId accepts the identifier, the query   *)
(* text is absent, empty or a JSON object and, for a mutation, X-Password  *)
(* is the configured secret.  A request that fails one of them is answered *)
(* without a repository call and leaves the state as it was; a store       *)
(* failure during the call is answered 500 after that one call, with the   *)
(* store unchanged.                                                        *)
C14_OneCallAfterChecks ==
    [][ last'.req.ep \in MutationEps \cup ReadEps =>
          /\ Len(last'.calls) <= 1
          /\ last'.calls # <<>> =>
                /\ ReachesExecute(last'.req)
                /\ last'.calls[1].op = OpOf(last'.req.ep)
          /\ ~ReachesExecute(last'.req) =>
                /\ last'.calls = <<>>
                /\ last'.resp.status \in {400, 403, 422, 500}
                /\ <<instance', clients', store'>> = <<instance, clients, store>>
          /\ (last'.calls # <<>> /\ last'.fate = "fail") =>
                /\ last'.resp.status = 500
                /\ Len(last'.calls) = 1
                /\ store' = store ]_vars

\* the store failed the one delete_one of an authorized delete, which was
\* answered 500
C14_Witness ==
    /\ last.req.ep \in DeleteEps
    /\ last.fate = "fail"
    /\ Len(last.calls) = 1
    /\ last.calls[1].op = "delete_one"
    /\ last.resp.status = 500

====
